---- MODULE Spec2Model ----
(***************************************************************************)
(* Session and transport management layer of the Odoo voice-assistant      *)
(* client: the auth slice (state/slices/authSlice.ts), the auth service    *)
(* with its API client (api/authService.ts) and the MCP service            *)
(* (api/mcpService.ts).                                                    *)
(*                                                                         *)
(* A JavaScript string is a sequence of tokens (<<>> is the empty string,  *)
(* the token " " is a whitespace character); null and undefined are the    *)
(* distinguished value NULL.                                               *)
(***************************************************************************)
EXTENDS Naturals, Sequences, FiniteSets, TLC

VARIABLES
    store,        \* AsyncStorage: persisted key -> string or NULL
    session,      \* the redux auth state (AuthState)
    authPc,       \* position of the auth thunk in flight
    last,         \* the service call in flight or just completed: its inputs and outcome
    persisted,    \* the login whose credential record the store still holds
    accessToken,  \* createApiClient: the cached access token
    tokenRefreshPromise,  \* createApiClient: the refresh call awaited, 0 for null
    request,      \* fetchWithAuth calls: position and the refresh call each waits on
    refresh,      \* authService.refreshToken calls: stage and outcome
    io,           \* whether require('socket.io-client') succeeded
    isConnected,  \* MCPService.isConnected
    socketReady,  \* MCPService.socketReady
    socket,       \* MCPService.socket: the socket instance held, 0 for null
    serverUrl,    \* MCPService.serverUrl
    token,        \* MCPService.token
    sockets,      \* the socket instances io() created: state, waiting connect, handlers
    connectionListeners,  \* MCPService.connectionListeners, in registration order
    listener,     \* per listener: how it behaves and the value it last received
    query,        \* the processQuery call in flight or just completed
    route         \* the screen the navigator shows: "Login" or "Main"

clientVars == <<accessToken, tokenRefreshPromise, request, refresh>>

mcpVars == <<io, isConnected, socketReady, socket, serverUrl, token, sockets,
             connectionListeners, listener, query>>

vars == <<store, session, authPc, last, persisted,
          accessToken, tokenRefreshPromise, request, refresh,
          io, isConnected, socketReady, socket, serverUrl, token, sockets,
          connectionListeners, listener, query, route>>

----------------------------------------------------------------------------
(* Values *)

NULL == <<"null">>

\* JavaScript truthiness of a string | null | undefined
Truthy(v) == v # NULL /\ v # <<>>

\* JavaScript a || b
Or(a, b) == IF Truthy(a) THEN a ELSE b

RECURSIVE TrimLeft(_)
TrimLeft(s) == IF s = <<>> THEN s
               ELSE IF Head(s) = " " THEN TrimLeft(Tail(s)) ELSE s

RECURSIVE TrimRight(_)
TrimRight(s) == IF s = <<>> THEN s
                ELSE IF s[Len(s)] = " " THEN TrimRight(SubSeq(s, 1, Len(s) - 1)) ELSE s

\* String.prototype.trim
Trim(s) == TrimRight(TrimLeft(s))

STORAGE_KEYS == {"access_token", "refresh_token", "username", "server_url", "user"}

initialState ==
    [isLoggedIn |-> FALSE, token |-> NULL, refreshToken |-> NULL, username |-> NULL,
     serverUrl |-> NULL, user |-> NULL, loading |-> FALSE, error |-> NULL]

EmptyStore == [k \in STORAGE_KEYS |-> NULL]

\* JSON.stringify of a user object {id, name, username}, held as <<id, name, username>>
JSONstringify(user) == <<"{">> \o user \o <<"}">>

JSONvalid(s) == Len(s) = 5 /\ s[1] = "{" /\ s[5] = "}"

\* JSON.parse of a stored user; only called on JSONvalid strings (it throws on others)
JSONparse(s) == SubSeq(s, 2, 4)

----------------------------------------------------------------------------
(* Inputs the environment can supply *)

UsernameInputs == {<<>>, <<" ">>, <<"demo">>}
PasswordInputs == {<<>>, <<"pw">>}
ServerUrlInputs == {<<>>, <<"ftp://", "h">>, <<"https://", "h">>}

AccessTokens == {<<"a">>}
RefreshTokens == {<<"b">>}
Users == {<<"1", "Demo", "demo">>}

\* What POST /auth/login can yield
LoginBodies == [accessToken : AccessTokens, refreshToken : RefreshTokens, user : Users]
ErrorBodies == [error : {NULL, <<"Invalid credentials">>}, message : {NULL, <<"Denied">>}]

\* What the device may hold when the process starts
StoreInits ==
    {st \in [STORAGE_KEYS -> {NULL, <<"a">>, <<"b">>, <<"demo">>, <<"https://", "h">>,
                              <<"not json">>, JSONstringify(<<"1", "Demo", "demo">>)}] :
        /\ st["access_token"] \in {NULL, <<"a">>}
        /\ st["refresh_token"] \in {NULL, <<"b">>}
        /\ st["username"] \in {NULL, <<"demo">>}
        /\ st["server_url"] \in {NULL, <<"https://", "h">>}
        /\ st["user"] \in {NULL, <<"not json">>, JSONstringify(<<"1", "Demo", "demo">>)}}

NoCall == [op |-> "none"]
NoPersisted == [username |-> NULL, serverUrl |-> NULL, accessToken |-> NULL]

----------------------------------------------------------------------------
(* The auth slice: reducers *)

loginStart(state) == [state EXCEPT !.loading = TRUE, !.error = NULL]

loginSuccess(state, payload) ==
    [state EXCEPT !.isLoggedIn = TRUE,
                  !.token = payload.token,
                  !.refreshToken = Or(payload.refreshToken, NULL),
                  !.username = payload.username,
                  !.serverUrl = payload.serverUrl,
                  !.user = Or(payload.user, NULL),
                  !.loading = FALSE,
                  !.error = NULL]

loginFailure(state, msg) == [state EXCEPT !.loading = FALSE, !.error = msg]

logout(state) == initialState

clearError(state) == [state EXCEPT !.error = NULL]

loginPending(state) == [state EXCEPT !.loading = TRUE, !.error = NULL]

loginFulfilledNoToken(state, payload) ==
    [state EXCEPT !.isLoggedIn = TRUE,
                  !.loading = FALSE,
                  !.error = NULL]

loginFulfilled(state, payload) ==
    [state EXCEPT !.isLoggedIn = TRUE,
                  !.token = payload.accessToken,
                  !.refreshToken = Or(payload.refreshToken, NULL),
                  !.username = <<payload.user[3]>>,
                  !.user = payload.user,
                  !.loading = FALSE,
                  !.error = NULL]

loginRejectedStillLoading(state, payload) ==
    [state EXCEPT !.error = Or(payload, <<"Login failed">>)]

loginRejected(state, payload) ==
    [state EXCEPT !.loading = FALSE, !.error = Or(payload, <<"Login failed">>)]

logoutPending(state) == [state EXCEPT !.loading = TRUE]

logoutFulfilled(state) == initialState

logoutRejected(state, payload) ==
    [initialState EXCEPT !.error = Or(payload, <<"Logout failed">>)]

checkPending(state) == [state EXCEPT !.loading = TRUE]

checkFulfilled(state, payload) ==
    IF payload.isLoggedIn
    THEN [state EXCEPT !.isLoggedIn = TRUE,
                       !.token = Or(payload.token, NULL),
                       !.refreshToken = Or(payload.refreshToken, NULL),
                       !.username = Or(payload.username, NULL),
                       !.serverUrl = Or(payload.serverUrl, NULL),
                       !.user = Or(payload.user, NULL),
                       !.loading = FALSE]
    ELSE [state EXCEPT !.loading = FALSE]

checkRejected(state) == [state EXCEPT !.loading = FALSE]

----------------------------------------------------------------------------
(* The auth service *)

API_URL == "http://172.31.174.192:3000/api"

\* authService.login, input validation: the message it throws, or NULL
LoginValidation(username, password, url) ==
    IF Trim(username) = <<>> THEN <<"Username is required">>
    ELSE IF Trim(password) = <<>> THEN <<"Password is required">>
    ELSE IF Trim(url) = <<>> THEN <<"Server URL is required">>
    ELSE NULL

\* the serverUrl begins with http:// or https:// and goes on: /^https?:\/\/.+/i
HasHttpPrefix(s) == Len(s) >= 2 /\ s[1] \in {"http://", "https://"}

validateFormNoUrlTest(username, password, url) ==
    Trim(username) # <<>> /\ Trim(password) # <<>> /\ Trim(url) # <<>>

\* LoginScreen.validateForm: every field non-blank after trim, and the server URL
\* (as typed) matching the pattern
validateForm(username, password, url) ==
    /\ Trim(username) # <<>>
    /\ Trim(password) # <<>>
    /\ Trim(url) # <<>>
    /\ HasHttpPrefix(url)

LoginRecordNoServerUrl(args, data) ==
    [k \in STORAGE_KEYS |->
        CASE k = "access_token" -> data.accessToken
          [] k = "refresh_token" -> data.refreshToken
          [] k = "username" -> args.username
          [] k = "server_url" -> NULL
          [] k = "user" -> JSONstringify(data.user)]

\* The credential record login persists
LoginRecord(args, data) ==
    [k \in STORAGE_KEYS |->
        CASE k = "access_token" -> data.accessToken
          [] k = "refresh_token" -> data.refreshToken
          [] k = "username" -> args.username
          [] k = "server_url" -> args.serverUrl
          [] k = "user" -> JSONstringify(data.user)]

\* Promise.all over the five setItem calls: the writes in `done` took effect
WriteAll(st, rec, done) == [k \in STORAGE_KEYS |-> IF k \in done THEN rec[k] ELSE st[k]]

RemoveAllButRefreshToken(st, done) ==
    [k \in STORAGE_KEYS |-> IF k \in done /\ k # "refresh_token" THEN NULL ELSE st[k]]

\* Promise.all over the five removeItem calls: the removals in `done` took effect
RemoveAll(st, done) == [k \in STORAGE_KEYS |-> IF k \in done THEN NULL ELSE st[k]]

ErrorMessageGeneric(errorData, prefix, status) == <<prefix, status>>

\* errorData.error || errorData.message || `... failed with status ${status}`
ErrorMessage(errorData, prefix, status) ==
    Or(Or(errorData.error, errorData.message), <<prefix, status>>)

NetworkErrorMessage ==
    <<"Cannot connect to proxy server at ", API_URL,
      ". Please check your network connection.">>

\* The try block of checkAuthStatus over the values read (readFails: a getItem rejected)
checkAuthStatusTry(st, readFails) ==
    IF readFails THEN [threw |-> TRUE]
    ELSE IF Truthy(st["access_token"]) /\ Truthy(st["username"]) /\ Truthy(st["server_url"])
    THEN IF Truthy(st["user"]) /\ ~JSONvalid(st["user"])
         THEN [threw |-> TRUE]
         ELSE [threw |-> FALSE,
               status |-> [isLoggedIn |-> TRUE,
                           token |-> st["access_token"],
                           refreshToken |-> Or(st["refresh_token"], NULL),
                           username |-> st["username"],
                           serverUrl |-> st["server_url"],
                           user |-> IF Truthy(st["user"]) THEN JSONparse(st["user"])
                                    ELSE NULL]]
    ELSE [threw |-> FALSE, status |-> [isLoggedIn |-> FALSE]]

checkAuthStatusNoCatch(st, readFails) == checkAuthStatusTry(st, readFails)

\* authService.checkAuthStatus: the try block and its catch
checkAuthStatus(st, readFails) ==
    LET r == checkAuthStatusTry(st, readFails)
    IN  IF r.threw THEN [threw |-> FALSE, status |-> [isLoggedIn |-> FALSE]] ELSE r

----------------------------------------------------------------------------
(* authService.refreshToken and the API client of createApiClient *)

MaxRequests == 2
MaxRefreshCalls == 2

Requests == 1..MaxRequests
RefreshCalls == 1..MaxRefreshCalls

NoRequest == [pc |-> "idle", waitOn |-> 0, result |-> "none"]
\* An authService.refreshToken call: stage is its position ("read", "fetch") or how it
\* settled ("ok", "failed"); token is the access token it resolved to; code is the code
\* property of the error it threw ("untagged": the error has none); cause is what made
\* it throw; sent says POST /auth/refresh was sent
NoRefresh == [stage |-> "unused", token |-> NULL, code |-> "none", cause |-> "none",
              sent |-> FALSE]

NewAccessTokens == {<<"a2">>}
RotatedRefreshTokens == {NULL, <<"b2">>}

Settled(k) == refresh[k].stage \in {"ok", "failed"}

\* authService.refreshToken() is called: it runs up to its first await, the getItem
RefreshCalled(k) == [refresh EXCEPT ![k] = [NoRefresh EXCEPT !.stage = "read"]]

\* a caller outside the API client calls authService.refreshToken()
DirectRefresh(k) ==
    /\ refresh[k].stage = "unused"
    /\ refresh' = RefreshCalled(k)
    /\ UNCHANGED <<mcpVars, route, store, session, authPc, last, persisted,
                   accessToken, tokenRefreshPromise, request>>

\* the refresh token is read: absent (or the read rejected), the call throws; present,
\* POST /auth/refresh is sent
RefreshRead(k, readFails) ==
    /\ refresh[k].stage = "read"
    /\ refresh' = [refresh EXCEPT ![k] =
          IF readFails THEN [@ EXCEPT !.stage = "failed", !.code = "untagged",
                                      !.cause = "read_failed"]
          ELSE IF ~Truthy(store["refresh_token"])
          THEN [@ EXCEPT !.stage = "failed", !.code = "untagged",
                         !.cause = "no_refresh_token"]
          ELSE [@ EXCEPT !.stage = "fetch", !.sent = TRUE]]
    /\ UNCHANGED <<mcpVars, route, store, session, authPc, last, persisted,
                   accessToken, tokenRefreshPromise, request>>

\* 2xx: the new access token is stored, then the rotated refresh token if there is one;
\* a setItem that rejects makes the call throw
RefreshResponseOk(k, newToken, rotated, writes) ==
    /\ refresh[k].stage = "fetch"
    /\ writes \in {0, 1, 2}
    /\ store' = [store EXCEPT
          !["access_token"] = IF writes >= 1 THEN newToken ELSE @,
          !["refresh_token"] = IF writes = 2 /\ Truthy(rotated) THEN rotated ELSE @]
    /\ refresh' = [refresh EXCEPT ![k] =
          IF writes = 2 \/ (writes = 1 /\ ~Truthy(rotated))
          THEN [@ EXCEPT !.stage = "ok", !.token = newToken]
          ELSE [@ EXCEPT !.stage = "failed", !.code = "untagged",
                         !.cause = "write_failed"]]
    /\ persisted' = IF writes = 0 THEN persisted ELSE NoPersisted
    /\ UNCHANGED <<mcpVars, route, session, authPc, last, accessToken, tokenRefreshPromise, request>>

\* non-2xx: REFRESH_FAILED
RefreshResponseError(k) ==
    /\ refresh[k].stage = "fetch"
    /\ refresh' = [refresh EXCEPT ![k] = [@ EXCEPT !.stage = "failed",
                                                   !.code = "REFRESH_FAILED",
                                                   !.cause = "http_error"]]
    /\ UNCHANGED <<mcpVars, route, store, session, authPc, last, persisted,
                   accessToken, tokenRefreshPromise, request>>

\* fetch rejects with TypeError('Network request failed'): NETWORK_ERROR
RefreshNetworkFailure(k) ==
    /\ refresh[k].stage = "fetch"
    /\ refresh' = [refresh EXCEPT ![k] = [@ EXCEPT !.stage = "failed",
                                                   !.code = "NETWORK_ERROR",
                                                   !.cause = "network_failure"]]
    /\ UNCHANGED <<mcpVars, route, store, session, authPc, last, persisted,
                   accessToken, tokenRefreshPromise, request>>

\* getToken, then the request is sent: the cached token, else the stored one; with
\* neither (or the read rejected) the call throws
GetToken(r, readFails, req) ==
    IF Truthy(accessToken)
    THEN /\ request' = [req EXCEPT ![r].pc = "fetch"]
         /\ UNCHANGED accessToken
    ELSE IF readFails \/ ~Truthy(store["access_token"])
    THEN /\ request' = [req EXCEPT ![r].pc = "done", ![r].result = "threw"]
         /\ accessToken' = IF readFails THEN accessToken ELSE store["access_token"]
    ELSE /\ request' = [req EXCEPT ![r].pc = "fetch"]
         /\ accessToken' = store["access_token"]

\* fetchWithAuth is called: with a refresh in progress it first awaits that promise
FetchWithAuth(r, readFails) ==
    /\ request[r].pc = "idle"
    /\ IF tokenRefreshPromise # 0
       THEN /\ request' = [request EXCEPT ![r].pc = "gate", ![r].waitOn = tokenRefreshPromise]
            /\ UNCHANGED accessToken
       ELSE GetToken(r, readFails, request)
    /\ UNCHANGED <<mcpVars, route, store, session, authPc, last, persisted, tokenRefreshPromise, refresh>>

\* the awaited refresh settled (its own caller, which awaited it first, has resumed):
\* a rejection propagates, otherwise getToken and the request follow
RefreshAwaited(r, readFails) ==
    /\ request[r].pc = "gate"
    /\ Settled(request[r].waitOn)
    /\ \A q \in Requests : request[q].pc = "refreshing" => request[q].waitOn # request[r].waitOn
    /\ IF refresh[request[r].waitOn].stage = "failed"
       THEN /\ request' = [request EXCEPT ![r].pc = "done", ![r].result = "threw"]
            /\ UNCHANGED accessToken
       ELSE GetToken(r, readFails, request)
    /\ UNCHANGED <<mcpVars, route, store, session, authPc, last, persisted, tokenRefreshPromise, refresh>>

\* the response is 2xx, or an error other than 401, or fetch rejected
ResponseOther(r, outcome) ==
    /\ request[r].pc = "fetch"
    /\ outcome \in {"ok", "threw"}
    /\ request' = [request EXCEPT ![r].pc = "done", ![r].result = outcome]
    /\ UNCHANGED <<mcpVars, route, store, session, authPc, last, persisted,
                   accessToken, tokenRefreshPromise, refresh>>

\* the response is 401: tokenRefreshPromise = authService.refreshToken(), awaited
ResponseUnauthorized(r, k) ==
    /\ request[r].pc = "fetch"
    /\ refresh[k].stage = "unused"
    /\ refresh' = RefreshCalled(k)
    /\ tokenRefreshPromise' = k
    /\ request' = [request EXCEPT ![r].pc = "refreshing", ![r].waitOn = k]
    /\ UNCHANGED <<mcpVars, route, store, session, authPc, last, persisted, accessToken>>

\* the refresh this call started resolved: the token is cached, the promise cleared and
\* the request sent again
RefreshResolved(r) ==
    /\ request[r].pc = "refreshing"
    /\ refresh[request[r].waitOn].stage = "ok"
    /\ accessToken' = refresh[request[r].waitOn].token
    /\ tokenRefreshPromise' = 0
    /\ request' = [request EXCEPT ![r].pc = "retry"]
    /\ UNCHANGED <<mcpVars, route, store, session, authPc, last, persisted, refresh>>

\* the refresh this call started rejected: the token and the promise are cleared and
\* authService.logout() is awaited
RefreshRejected(r) ==
    /\ request[r].pc = "refreshing"
    /\ refresh[request[r].waitOn].stage = "failed"
    /\ accessToken' = NULL
    /\ tokenRefreshPromise' = 0
    /\ request' = [request EXCEPT ![r].pc = "logout"]
    /\ UNCHANGED <<mcpVars, route, store, session, authPc, last, persisted, refresh>>

\* authService.logout() called by the API client settles (its remote call is ignored);
\* fetchWithAuth then throws 'Session expired. Please log in again.'
ClientLogout(r, readFails, done) ==
    /\ request[r].pc = "logout"
    /\ store' = IF readFails THEN store ELSE RemoveAll(store, done)
    /\ persisted' = IF readFails \/ done = {} THEN persisted ELSE NoPersisted
    /\ request' = [request EXCEPT ![r].pc = "done", ![r].result = "threw"]
    /\ UNCHANGED <<mcpVars, route, session, authPc, last, accessToken, tokenRefreshPromise, refresh>>

\* the request sent again settles: its response is returned as it is, a rejection
\* propagates
RetrySettled(r, outcome) ==
    /\ request[r].pc = "retry"
    /\ outcome \in {"ok", "threw"}
    /\ request' = [request EXCEPT ![r].pc = "done", ![r].result = outcome]
    /\ UNCHANGED <<mcpVars, route, store, session, authPc, last, persisted,
                   accessToken, tokenRefreshPromise, refresh>>

----------------------------------------------------------------------------
(* The login thunk and authService.login *)

HttpErrorStatuses == {"401"}

\* login with arguments that fail validation: pending, then rejected, with no await
LoginInvalid(u, p, s) ==
    /\ UNCHANGED <<clientVars, mcpVars, route>>
    /\ authPc = "idle"
    /\ LoginValidation(u, p, s) # NULL
    /\ session' = loginRejected(loginPending(session), LoginValidation(u, p, s))
    /\ last' = [op |-> "login", username |-> u, password |-> p, serverUrl |-> s,
                sent |-> FALSE, code |-> "INVALID_INPUT", wrote |-> FALSE,
                screen |-> FALSE]
    /\ UNCHANGED <<store, authPc, persisted>>

\* login with arguments that pass validation: pending, and POST /auth/login is sent
LoginDispatch(u, p, s) ==
    /\ UNCHANGED <<clientVars, mcpVars, route>>
    /\ authPc = "idle"
    /\ LoginValidation(u, p, s) = NULL
    /\ session' = loginPending(session)
    /\ authPc' = "login_fetch"
    /\ last' = [op |-> "login", username |-> u, password |-> p, serverUrl |-> s,
                sent |-> TRUE, code |-> "pending", wrote |-> FALSE, screen |-> FALSE]
    /\ UNCHANGED <<store, persisted>>

\* LoginScreen.handleLogin with a form validateForm refuses: it returns at once
HandleLoginInvalid(u, p, s) ==
    /\ route = "Login"
    /\ authPc = "idle"
    /\ ~validateForm(u, p, s)
    /\ last' = [op |-> "handleLogin", username |-> u, password |-> p, serverUrl |-> s]
    /\ UNCHANGED <<store, session, authPc, persisted, clientVars, mcpVars, route>>

\* LoginScreen.handleLogin with a form validateForm accepts: the login thunk is
\* dispatched and awaited (rejected at once should authService.login refuse the
\* arguments, which is not a fulfilled login: no navigation)
HandleLoginSubmit(u, p, s) ==
    /\ route = "Login"
    /\ authPc = "idle"
    /\ validateForm(u, p, s)
    /\ IF LoginValidation(u, p, s) # NULL
       THEN /\ session' = loginRejected(loginPending(session), LoginValidation(u, p, s))
            /\ last' = [op |-> "login", username |-> u, password |-> p, serverUrl |-> s,
                        sent |-> FALSE, code |-> "INVALID_INPUT", wrote |-> FALSE,
                        screen |-> TRUE]
            /\ UNCHANGED authPc
       ELSE /\ session' = loginPending(session)
            /\ authPc' = "login_fetch"
            /\ last' = [op |-> "login", username |-> u, password |-> p, serverUrl |-> s,
                        sent |-> TRUE, code |-> "pending", wrote |-> FALSE,
                        screen |-> TRUE]
    /\ UNCHANGED <<store, persisted, clientVars, mcpVars, route>>

\* 2xx: the credential record is written; login is fulfilled when every write
\* succeeded, and handleLogin, when it dispatched the login, then replaces the route
\* with Main
LoginResponseOk(data, done) ==
    /\ UNCHANGED <<clientVars, mcpVars>>
    /\ authPc = "login_fetch"
    /\ route' = IF last.screen /\ done = STORAGE_KEYS THEN "Main" ELSE route
    /\ store' = WriteAll(store, LoginRecord(last, data), done)
    /\ IF done = STORAGE_KEYS
       THEN /\ session' = loginFulfilled(session, data)
            /\ last' = [last EXCEPT !.code = "ok", !.wrote = TRUE]
            /\ persisted' = [username |-> last.username, serverUrl |-> last.serverUrl,
                             accessToken |-> data.accessToken]
       ELSE /\ session' = loginRejected(session, <<"Failed to write to storage">>)
            /\ last' = [last EXCEPT !.code = "untagged", !.wrote = (done # {})]
            /\ persisted' = IF done = {} THEN persisted ELSE NoPersisted
    /\ authPc' = "idle"

\* non-2xx: AUTH_FAILED with the server's message, or the generic one
LoginResponseError(errorData, status) ==
    /\ UNCHANGED <<clientVars, mcpVars, route>>
    /\ authPc = "login_fetch"
    /\ session' = loginRejected(session,
                     ErrorMessage(errorData, "Authentication failed with status ", status))
    /\ last' = [op |-> "login", username |-> last.username, password |-> last.password,
                serverUrl |-> last.serverUrl, sent |-> TRUE, code |-> "AUTH_FAILED",
                wrote |-> FALSE, screen |-> last.screen, errorData |-> errorData,
                status |-> status, storeBefore |-> store]
    /\ authPc' = "idle"
    /\ UNCHANGED <<store, persisted>>

\* fetch rejects with TypeError('Network request failed'): NETWORK_ERROR
LoginNetworkFailure ==
    /\ UNCHANGED <<clientVars, mcpVars, route>>
    /\ authPc = "login_fetch"
    /\ session' = loginRejected(session, NetworkErrorMessage)
    /\ last' = [last EXCEPT !.code = "NETWORK_ERROR"]
    /\ authPc' = "idle"
    /\ UNCHANGED <<store, persisted>>

----------------------------------------------------------------------------
(* The logout thunk and authService.logout *)

\* if (token && refreshToken): whether POST /auth/logout is sent
HasBothTokensAlways(tok, rtok) == TRUE

HasBothTokens(tok, rtok) == Truthy(tok) /\ Truthy(rtok)

\* dispatch(logoutThunk()): pending; authService.logout starts its two getItem calls
LogoutDispatch ==
    /\ UNCHANGED <<clientVars, mcpVars, route>>
    /\ authPc = "idle"
    /\ session' = logoutPending(session)
    /\ authPc' = "logout_read"
    /\ last' = [op |-> "logout", sent |-> FALSE, remote |-> "none", result |-> "pending",
                storageFailed |-> FALSE,
                fresh |-> (store = EmptyStore /\ session = initialState)]
    /\ UNCHANGED <<store, persisted>>

\* the two getItem calls: a rejected read throws 'Failed to logout'; with both tokens
\* present POST /auth/logout is sent, otherwise the removal follows at once
LogoutRead(readFails) ==
    /\ UNCHANGED <<clientVars, mcpVars>>
    /\ authPc = "logout_read"
    /\ route' = IF readFails THEN "Login" ELSE route
    /\ IF readFails
       THEN /\ session' = logoutRejected(session, <<"Failed to logout">>)
            /\ authPc' = "idle"
            /\ last' = [last EXCEPT !.result = "threw", !.storageFailed = TRUE]
       ELSE IF HasBothTokens(store["access_token"], store["refresh_token"])
       THEN /\ authPc' = "logout_fetch"
            /\ last' = [last EXCEPT !.sent = TRUE]
            /\ UNCHANGED session
       ELSE /\ authPc' = "logout_clear"
            /\ UNCHANGED <<session, last>>
    /\ UNCHANGED <<store, persisted>>

RemoteOutcomes == {"ok", "http_error", "network_failure"}

\* POST /auth/logout settles; the response is not looked at, a rejection is caught
LogoutFetchSettle(outcome) ==
    /\ UNCHANGED <<clientVars, mcpVars, route>>
    /\ authPc = "logout_fetch"
    /\ authPc' = "logout_clear"
    /\ last' = [last EXCEPT !.remote = outcome]
    /\ UNCHANGED <<store, session, persisted>>

\* Promise.all over the five removeItem calls, then fulfilled or rejected; the thunk
\* has settled and MainScreen.handleLogout, its only caller, replaces the route with
\* Login
LogoutClear(done) ==
    /\ UNCHANGED <<clientVars, mcpVars>>
    /\ authPc = "logout_clear"
    /\ route' = "Login"
    /\ store' = RemoveAll(store, done)
    /\ IF done = STORAGE_KEYS
       THEN /\ session' = logoutFulfilled(session)
            /\ last' = [last EXCEPT !.result = "ok"]
       ELSE /\ session' = logoutRejected(session, <<"Failed to logout">>)
            /\ last' = [last EXCEPT !.result = "threw", !.storageFailed = TRUE]
    /\ persisted' = IF done = {} THEN persisted ELSE NoPersisted
    /\ authPc' = "idle"

----------------------------------------------------------------------------
(* The checkAuthStatus thunk *)

CheckDispatch ==
    /\ UNCHANGED <<clientVars, mcpVars, route>>
    /\ authPc = "idle"
    /\ session' = checkPending(session)
    /\ authPc' = "check_read"
    /\ last' = [op |-> "check", done |-> FALSE]
    /\ UNCHANGED <<store, persisted>>

\* the five getItem calls settle; the thunk dispatches fulfilled (rejected had the
\* service thrown)
CheckComplete(readFails) ==
    /\ UNCHANGED <<clientVars, mcpVars, route>>
    /\ authPc = "check_read"
    /\ LET r == checkAuthStatus(store, readFails)
       IN  /\ session' = IF r.threw THEN checkRejected(session)
                         ELSE checkFulfilled(session, r.status)
           /\ last' = [op |-> "check", done |-> TRUE, threw |-> r.threw,
                       readFailed |-> readFails,
                       status |-> IF r.threw THEN [isLoggedIn |-> FALSE] ELSE r.status]
    /\ authPc' = "idle"
    /\ UNCHANGED <<store, persisted>>

----------------------------------------------------------------------------
(* The MCP service *)

MaxSockets == 2
MaxListeners == 2

Sockets == 1..MaxSockets
Listeners == 1..MaxListeners

\* A socket instance: state is "none" (not created), "connecting" (handshake or
\* reconnection under way), "connected" or "closed"; call is the connect call that
\* created it ("waiting" on the handshake, "done" after the handshake, "timedout" when
\* the call gave up waiting); handlers says whether setupSocketEventHandlers
\* registered its handlers on it; auth is socket.auth.token; authError says an
\* auth_error handler is awaiting its getItem; reauth says an auth_error handler has
\* called connect() on it
NoSocket == [state |-> "none", call |-> "none", handlers |-> FALSE, auth |-> NULL,
             authError |-> FALSE, reauth |-> FALSE]

\* A listener: kind is how the callback behaves ("plain", "throws": it throws,
\* "once": it calls its own unsubscribe function when notified); received is the value
\* it was last called with
ListenerKinds == {"plain", "throws", "once"}
NoListener == [kind |-> "plain", received |-> "none"]

McpUrls == {<<"https://", "h">>}
McpTokens == {<<"a">>}

BoolStr(b) == IF b THEN "true" ELSE "false"

\* the unsubscribe function: indexOf and splice
RECURSIVE Unsubscribed(_, _)
Unsubscribed(ls, l) ==
    IF ls = <<>> THEN ls
    ELSE IF Head(ls) = l THEN Tail(ls)
    ELSE <<Head(ls)>> \o Unsubscribed(Tail(ls), l)

\* notifyConnectionListeners: the for-of loop over the array, from index i on; each
\* call is wrapped in try/catch; a listener that unsubscribes shortens the array
\* under the loop
RECURSIVE NotifyFrom(_, _, _, _)
NotifyFrom(ls, lst, i, value) ==
    IF i > Len(ls) THEN [connectionListeners |-> ls, listener |-> lst]
    ELSE LET l == ls[i]
         IN  NotifyFrom(IF lst[l].kind = "once" THEN Unsubscribed(ls, l) ELSE ls,
                        [lst EXCEPT ![l].received = BoolStr(value)],
                        i + 1, value)

notifyConnectionListeners(value) ==
    LET n == NotifyFrom(connectionListeners, listener, 1, value)
    IN  /\ connectionListeners' = n.connectionListeners
        /\ listener' = n.listener

\* addConnectionListener: push, then the listener is called with the current state,
\* outside any try/catch; the unsubscribe function is returned if that call returned
addConnectionListener(l, kind) ==
    /\ listener[l].received = "none"
    /\ \A i \in 1..Len(connectionListeners) : connectionListeners[i] # l
    /\ connectionListeners' = Append(connectionListeners, l)
    /\ listener' = [listener EXCEPT ![l] = [kind |-> kind, received |-> BoolStr(isConnected)]]
    /\ last' = [op |-> "addConnectionListener", threw |-> (kind = "throws")]
    /\ UNCHANGED <<store, session, authPc, persisted, clientVars, route, query,
                   io, isConnected, socketReady, socket, serverUrl, token, sockets>>

\* the function addConnectionListener returned is called (by whoever holds it: not the
\* caller whose registration threw)
removeListener(l) ==
    /\ listener[l].received # "none"
    /\ listener[l].kind # "throws"
    /\ connectionListeners' = Unsubscribed(connectionListeners, l)
    /\ listener' = [listener EXCEPT ![l] = NoListener]
    /\ last' = [op |-> "removeListener"]
    /\ UNCHANGED <<store, session, authPc, persisted, clientVars, route, query,
                   io, isConnected, socketReady, socket, serverUrl, token, sockets>>

\* connect without a socket: socket.io is not available, or io() throws; the service
\* is marked connected for the REST fallback and the listeners are notified. (The
\* callers, the Main screen's effect and its cleanup, call connect only after
\* disconnect followed the previous connect.)
ConnectWithoutSocket(url, tok, ioThrows) ==
    /\ serverUrl = NULL
    /\ io = ioThrows
    /\ serverUrl' = url
    /\ token' = tok
    /\ isConnected' = TRUE
    /\ notifyConnectionListeners(TRUE)
    /\ last' = [op |-> "connect", path |-> IF io THEN "io_threw" ELSE "no_io",
                result |-> TRUE, threw |-> FALSE]
    /\ UNCHANGED <<store, session, authPc, persisted, clientVars, route, query,
                   io, socketReady, socket, sockets>>

\* connect with socket.io available: a socket is created with the token and the call
\* waits for its handshake
ConnectStart(i, url, tok) ==
    /\ serverUrl = NULL
    /\ io
    /\ sockets[i].state = "none"
    /\ \A j \in Sockets : j < i => sockets[j].state # "none"
    /\ serverUrl' = url
    /\ token' = tok
    /\ socket' = i
    /\ sockets' = [sockets EXCEPT ![i] = [NoSocket EXCEPT !.state = "connecting",
                                                          !.call = "waiting",
                                                          !.auth = tok]]
    /\ last' = [op |-> "connect", path |-> "pending", result |-> FALSE, threw |-> FALSE]
    /\ UNCHANGED <<store, session, authPc, persisted, clientVars, route, query,
                   io, isConnected, socketReady, connectionListeners, listener>>

\* setupSocketEventHandlers: the handlers go on the socket the service holds now
setupSocketEventHandlers(skts) ==
    IF socket = 0 THEN skts ELSE [skts EXCEPT ![socket].handlers = TRUE]

\* socket i emits 'connect' (first handshake or a reconnection): socketReady is set,
\* by the handler connect registered and by the 'reconnect' handler; a connect call
\* still waiting on it resumes: handlers are set up, isConnected is set, the listeners
\* are notified and the call returns isConnected
SocketConnect(i) ==
    /\ sockets[i].state = "connecting"
    /\ socketReady' = TRUE
    /\ IF sockets[i].call = "waiting"
       THEN /\ sockets' = setupSocketEventHandlers(
                              [sockets EXCEPT ![i].state = "connected", ![i].call = "done"])
            /\ isConnected' = TRUE
            /\ notifyConnectionListeners(TRUE)
            /\ last' = [op |-> "connect", path |-> "socket", result |-> TRUE,
                        threw |-> FALSE]
       ELSE /\ sockets' = [sockets EXCEPT ![i].state = "connected"]
            /\ last' = [op |-> "event"]
            /\ UNCHANGED <<isConnected, connectionListeners, listener>>
    /\ UNCHANGED <<store, session, authPc, persisted, clientVars, route, query,
                   io, socket, serverUrl, token>>

\* the handshake of socket i does not complete: the timer of connect fires, or the
\* socket emits 'connect_timeout'; the call falls back to REST: isConnected is set,
\* the listeners are notified and the call returns isConnected. The socket is left as
\* it is
HandshakeTimeout(i) ==
    /\ sockets[i].call = "waiting"
    /\ sockets[i].state # "connected"
    /\ sockets' = [sockets EXCEPT ![i].call = "timedout"]
    /\ isConnected' = TRUE
    /\ notifyConnectionListeners(TRUE)
    /\ last' = [op |-> "connect", path |-> "handshake_failed", result |-> TRUE,
                threw |-> FALSE]
    /\ UNCHANGED <<store, session, authPc, persisted, clientVars, route, query,
                   io, socketReady, socket, serverUrl, token>>

\* socket i emits 'disconnect' (the transport dropped; socket.io will reconnect)
SocketDisconnect(i) ==
    /\ sockets[i].state = "connected"
    /\ sockets' = [sockets EXCEPT ![i].state = "connecting"]
    /\ socketReady' = IF sockets[i].handlers THEN FALSE ELSE socketReady
    /\ last' = [op |-> "event"]
    /\ UNCHANGED <<store, session, authPc, persisted, clientVars, route, query,
                   io, isConnected, socket, serverUrl, token, connectionListeners, listener>>

\* socket i emits 'reconnect_failed': its attempts are exhausted
ReconnectFailed(i) ==
    /\ sockets[i].state = "connecting"
    /\ sockets' = [sockets EXCEPT ![i].state = "closed"]
    /\ IF sockets[i].handlers
       THEN /\ isConnected' = FALSE
            /\ socketReady' = FALSE
            /\ notifyConnectionListeners(FALSE)
       ELSE UNCHANGED <<isConnected, socketReady, connectionListeners, listener>>
    /\ last' = [op |-> "reconnect_failed", call |-> sockets[i].call]
    /\ UNCHANGED <<store, session, authPc, persisted, clientVars, route, query,
                   io, socket, serverUrl, token>>

\* socket i receives 'auth_error': the handler starts and awaits getItem('access_token')
AuthError(i) ==
    /\ sockets[i].state = "connected"
    /\ sockets[i].handlers
    /\ ~sockets[i].authError
    /\ sockets' = [sockets EXCEPT ![i].authError = TRUE]
    /\ last' = [op |-> "event"]
    /\ UNCHANGED <<store, session, authPc, persisted, clientVars, route, query,
                   io, isConnected, socketReady, socket, serverUrl, token,
                   connectionListeners, listener>>

\* the auth_error handler resumes: with a stored token it sets it on the socket the
\* service holds and calls connect() on it; with none, or when the read rejected or no
\* socket is held, it marks the service disconnected and notifies the listeners
AuthErrorResume(i, readFails) ==
    /\ sockets[i].authError
    /\ IF ~readFails /\ Truthy(store["access_token"]) /\ socket # 0
       THEN /\ sockets' = [sockets EXCEPT
                   ![i].authError = FALSE,
                   ![socket].auth = store["access_token"],
                   ![socket].reauth = TRUE,
                   ![socket].state = IF sockets[socket].state = "closed"
                                     THEN "connecting" ELSE @]
            /\ last' = [op |-> "auth_error", reconnect |-> TRUE,
                        auth |-> store["access_token"], was |-> sockets[socket].auth,
                        again |-> sockets[socket].reauth]
            /\ UNCHANGED <<isConnected, socketReady, connectionListeners, listener>>
       ELSE /\ sockets' = [sockets EXCEPT ![i].authError = FALSE]
            /\ isConnected' = FALSE
            /\ socketReady' = FALSE
            /\ notifyConnectionListeners(FALSE)
            /\ last' = [op |-> "auth_error", reconnect |-> FALSE, auth |-> NULL,
                        was |-> NULL, again |-> FALSE]
    /\ UNCHANGED <<store, session, authPc, persisted, clientVars, route, query,
                   io, socket, serverUrl, token>>

\* disconnect: a socket that is held and ready is closed and released; the flags, url
\* and token are cleared and the listeners notified
disconnect ==
    /\ IF socket # 0 /\ socketReady
       THEN /\ sockets' = [sockets EXCEPT ![socket].state = "closed"]
            /\ socket' = 0
            /\ socketReady' = FALSE
       ELSE UNCHANGED <<sockets, socket, socketReady>>
    /\ isConnected' = FALSE
    /\ serverUrl' = NULL
    /\ token' = NULL
    /\ notifyConnectionListeners(FALSE)
    /\ last' = [op |-> "disconnect", threw |-> FALSE]
    /\ UNCHANGED <<store, session, authPc, persisted, clientVars, route, query, io>>

----------------------------------------------------------------------------
(* MCPService.processQuery *)

QueryTexts == {<<>>, <<" ">>, <<"list">>}

NoResponse == [type |-> "none", code |-> "none", via |-> "none"]

\* an MCPErrorResponse with its code, and the path that produced it
ErrorResponse(code, via) == [type |-> "error", code |-> code, via |-> via]

\* the result the server sent (response.result of the acknowledgment, data.result of
\* the REST answer)
ServerResult(via) == [type |-> "text", code |-> "none", via |-> via]

\* A processQuery call: pc is its position ("ws_wait": waiting for the acknowledgment
\* or the timer, "rest_read": awaiting getItem, "rest_fetch": awaiting fetch); emits and
\* http count the socket emits and the HTTP requests it made; on is the socket it
\* emitted on; wsFailed says its socket attempt timed out or was answered with an
\* error; late says the timer fired and the acknowledgment callback is still
\* registered; rest is how its HTTP request settled; start is the channel state it
\* found; afterFallback says the call before it had fallen back from the socket to REST
NoQuery == [pc |-> "idle", text |-> <<>>, emits |-> 0, http |-> 0, on |-> 0,
            rest |-> "none", response |-> NoResponse, wsFailed |-> FALSE, late |-> FALSE,
            start |-> [isConnected |-> FALSE, ready |-> FALSE, timedOut |-> FALSE],
            afterFallback |-> FALSE]

\* connect gave up waiting for the handshake of the socket held, and that handshake
\* has still not completed
HandshakeTimedOut ==
    /\ socket # 0
    /\ sockets[socket].call = "timedout"
    /\ sockets[socket].state = "connecting"
    /\ ~socketReady

QueryRouteNoTrim(text) ==
    IF text = <<>> THEN "EMPTY_QUERY"
    ELSE IF ~isConnected THEN "NOT_CONNECTED"
    ELSE IF socket # 0 /\ socketReady THEN "socket"
    ELSE "rest"

QueryRouteNoConnectionCheck(text) ==
    IF Trim(text) = <<>> THEN "EMPTY_QUERY"
    ELSE IF socket # 0 /\ socketReady THEN "socket"
    ELSE "rest"

QueryRouteRestOnly(text) ==
    IF Trim(text) = <<>> THEN "EMPTY_QUERY"
    ELSE IF ~isConnected THEN "NOT_CONNECTED"
    ELSE "rest"

QueryRouteSticky(text) ==
    IF Trim(text) = <<>> THEN "EMPTY_QUERY"
    ELSE IF ~isConnected THEN "NOT_CONNECTED"
    ELSE IF socket # 0 /\ socketReady /\ ~query.wsFailed THEN "socket"
    ELSE "rest"

\* processQuery up to its first await: the checks, in their order, and the path taken
QueryRoute(text) ==
    IF Trim(text) = <<>> THEN "EMPTY_QUERY"
    ELSE IF ~isConnected THEN "NOT_CONNECTED"
    ELSE IF socket # 0 /\ socketReady THEN "socket"
    ELSE "rest"

\* processQuery(text) is called
processQuery(text) ==
    /\ query.pc \in {"idle", "done"}
    /\ LET q == [NoQuery EXCEPT
                   !.text = text,
                   !.start = [isConnected |-> isConnected,
                              ready |-> (socket # 0 /\ socketReady),
                              timedOut |-> HandshakeTimedOut],
                   !.afterFallback = (query.pc = "done" /\ query.wsFailed)]
           path == QueryRoute(text)
       IN  query' =
             CASE path = "EMPTY_QUERY" ->
                    [q EXCEPT !.pc = "done", !.response = ErrorResponse("EMPTY_QUERY", "local")]
               [] path = "NOT_CONNECTED" ->
                    [q EXCEPT !.pc = "done",
                              !.response = ErrorResponse("NOT_CONNECTED", "local")]
               [] path = "socket" ->
                    [q EXCEPT !.pc = "ws_wait", !.emits = 1, !.on = socket]
               [] path = "rest" -> [q EXCEPT !.pc = "rest_read"]
    /\ last' = [op |-> "processQuery", resumed |-> FALSE]
    /\ UNCHANGED <<store, session, authPc, persisted, clientVars, route,
                   io, isConnected, socketReady, socket, serverUrl, token, sockets,
                   connectionListeners, listener>>

AckOutcomes == {"result", "error"}

\* the server acknowledges the query before the timer fires: a result resolves the
\* call, an error rejects the socket attempt and the query goes to REST
SocketAck(outcome) ==
    /\ query.pc = "ws_wait"
    /\ sockets[query.on].state = "connected"
    /\ outcome \in AckOutcomes
    /\ query' = IF outcome = "result"
                THEN [query EXCEPT !.pc = "done", !.response = ServerResult("socket")]
                ELSE [query EXCEPT !.pc = "rest_read", !.wsFailed = TRUE]
    /\ last' = [op |-> "processQuery", resumed |-> TRUE]
    /\ UNCHANGED <<store, session, authPc, persisted, clientVars, route,
                   io, isConnected, socketReady, socket, serverUrl, token, sockets,
                   connectionListeners, listener>>

\* the response timer fires first: the socket attempt is rejected and the query goes
\* to REST; the acknowledgment callback stays registered
SocketQueryTimeout ==
    /\ query.pc = "ws_wait"
    /\ query' = [query EXCEPT !.pc = "rest_read", !.wsFailed = TRUE, !.late = TRUE]
    /\ last' = [op |-> "processQuery", resumed |-> TRUE]
    /\ UNCHANGED <<store, session, authPc, persisted, clientVars, route,
                   io, isConnected, socketReady, socket, serverUrl, token, sockets,
                   connectionListeners, listener>>

LateAckSettlesAgain(outcome) ==
    /\ query.late
    /\ sockets[query.on].state = "connected"
    /\ outcome \in AckOutcomes
    /\ query' = [query EXCEPT !.late = FALSE,
                               !.response = IF outcome = "result" /\ query.pc = "done"
                                            THEN ServerResult("socket") ELSE @]
    /\ last' = [op |-> "lateAck", outcome |-> outcome]
    /\ UNCHANGED <<store, session, authPc, persisted, clientVars, route,
                   io, isConnected, socketReady, socket, serverUrl, token, sockets,
                   connectionListeners, listener>>

\* the acknowledgment arrives after the timer fired: clearTimeout on a fired timer and
\* resolve or reject on a settled promise do nothing
LateAck(outcome) ==
    /\ query.late
    /\ sockets[query.on].state = "connected"
    /\ outcome \in AckOutcomes
    /\ query' = [query EXCEPT !.late = FALSE]
    /\ last' = [op |-> "lateAck", outcome |-> outcome]
    /\ UNCHANGED <<store, session, authPc, persisted, clientVars, route,
                   io, isConnected, socketReady, socket, serverUrl, token, sockets,
                   connectionListeners, listener>>

RestCatchRethrow(kind) == [type |-> "threw", code |-> kind, via |-> "rest"]

\* the catch of processQueryViaREST: the error response for what went wrong
RestCatch(kind) ==
    IF kind = "network_failure" THEN ErrorResponse("NETWORK_ERROR", "rest")
    ELSE ErrorResponse("REST_API_ERROR", "rest")

\* processQueryViaREST reads the stored access token: with none (or the read rejected)
\* it returns an error response, otherwise POST /mcp/query is sent
RestRead(readFails) ==
    /\ query.pc = "rest_read"
    /\ query' = IF readFails THEN [query EXCEPT !.pc = "done",
                                                !.response = RestCatch("read_failed")]
                ELSE IF ~Truthy(store["access_token"])
                THEN [query EXCEPT !.pc = "done", !.response = RestCatch("no_token")]
                ELSE [query EXCEPT !.pc = "rest_fetch", !.http = 1]
    /\ last' = [op |-> "processQuery", resumed |-> TRUE]
    /\ UNCHANGED <<store, session, authPc, persisted, clientVars, route,
                   io, isConnected, socketReady, socket, serverUrl, token, sockets,
                   connectionListeners, listener>>

RestOutcomes == {"ok", "http_error", "network_failure", "bad_json"}

RestAnswerAlwaysError(outcome) == RestCatch(outcome)

\* what processQueryViaREST returns for the outcome of the fetch
RestAnswer(outcome) ==
    IF outcome = "ok" THEN ServerResult("rest") ELSE RestCatch(outcome)

\* POST /mcp/query settles: 2xx with a JSON body, non-2xx, fetch rejected, or a 2xx
\* body that does not parse
RestSettle(outcome) ==
    /\ query.pc = "rest_fetch"
    /\ outcome \in RestOutcomes
    /\ query' = [query EXCEPT !.pc = "done", !.rest = outcome,
                               !.response = RestAnswer(outcome)]
    /\ last' = [op |-> "processQuery", resumed |-> TRUE]
    /\ UNCHANGED <<store, session, authPc, persisted, clientVars, route,
                   io, isConnected, socketReady, socket, serverUrl, token, sockets,
                   connectionListeners, listener>>

----------------------------------------------------------------------------
(* Plain reducers dispatched by the login screen, and the process restarting *)

DispatchLoginStart ==
    /\ UNCHANGED <<clientVars, mcpVars, route>>
    /\ authPc = "idle"
    /\ session' = loginStart(session)
    /\ last' = NoCall
    /\ UNCHANGED <<store, authPc, persisted>>

DispatchLoginSuccess(payload) ==
    /\ UNCHANGED <<clientVars, mcpVars, route>>
    /\ authPc = "idle"
    /\ session' = loginSuccess(session, payload)
    /\ last' = NoCall
    /\ UNCHANGED <<store, authPc, persisted>>

DispatchLoginFailure(msg) ==
    /\ UNCHANGED <<clientVars, mcpVars, route>>
    /\ authPc = "idle"
    /\ session' = loginFailure(session, msg)
    /\ last' = NoCall
    /\ UNCHANGED <<store, authPc, persisted>>

DispatchLogout ==
    /\ UNCHANGED <<clientVars, mcpVars, route>>
    /\ authPc = "idle"
    /\ session' = logout(session)
    /\ last' = NoCall
    /\ UNCHANGED <<store, authPc, persisted>>

DispatchClearError ==
    /\ UNCHANGED <<clientVars, mcpVars, route>>
    /\ authPc = "idle"
    /\ session' = clearError(session)
    /\ last' = NoCall
    /\ UNCHANGED <<store, authPc, persisted>>

\* The process is killed and started again: memory is lost, the device storage is kept
Restart ==
    /\ session' = initialState
    /\ authPc' = "idle"
    /\ last' = NoCall
    /\ accessToken' = NULL
    /\ tokenRefreshPromise' = 0
    /\ request' = [r \in Requests |-> NoRequest]
    /\ refresh' = [k \in RefreshCalls |-> NoRefresh]
    /\ isConnected' = FALSE
    /\ socketReady' = FALSE
    /\ socket' = 0
    /\ serverUrl' = NULL
    /\ token' = NULL
    /\ sockets' = [i \in Sockets |-> NoSocket]
    /\ connectionListeners' = <<>>
    /\ listener' = [l \in Listeners |-> NoListener]
    /\ query' = NoQuery
    /\ route' = "Login"
    /\ UNCHANGED <<store, persisted, io>>

LoginSuccessPayloads ==
    [token : {<<"a">>}, refreshToken : {NULL}, username : {<<"demo">>},
     serverUrl : {<<"https://", "h">>}, user : {NULL}]

----------------------------------------------------------------------------

Init ==
    /\ store \in StoreInits
    /\ session = initialState
    /\ authPc = "idle"
    /\ last = NoCall
    /\ persisted = NoPersisted
    /\ accessToken = NULL
    /\ tokenRefreshPromise = 0
    /\ request = [r \in Requests |-> NoRequest]
    /\ refresh = [k \in RefreshCalls |-> NoRefresh]
    /\ io \in BOOLEAN
    /\ isConnected = FALSE
    /\ socketReady = FALSE
    /\ socket = 0
    /\ serverUrl = NULL
    /\ token = NULL
    /\ sockets = [i \in Sockets |-> NoSocket]
    /\ connectionListeners = <<>>
    /\ listener = [l \in Listeners |-> NoListener]
    /\ query = NoQuery
    /\ route = "Login"

Next ==
    \/ \E u \in UsernameInputs, p \in PasswordInputs, s \in ServerUrlInputs :
          LoginInvalid(u, p, s)
    \/ \E u \in UsernameInputs, p \in PasswordInputs, s \in ServerUrlInputs :
          LoginDispatch(u, p, s)
    \/ \E u \in UsernameInputs, p \in PasswordInputs, s \in ServerUrlInputs :
          HandleLoginInvalid(u, p, s)
    \/ \E u \in UsernameInputs, p \in PasswordInputs, s \in ServerUrlInputs :
          HandleLoginSubmit(u, p, s)
    \/ \E data \in LoginBodies, done \in SUBSET STORAGE_KEYS : LoginResponseOk(data, done)
    \/ \E e \in ErrorBodies, status \in HttpErrorStatuses : LoginResponseError(e, status)
    \/ LoginNetworkFailure
    \/ LogoutDispatch
    \/ \E f \in BOOLEAN : LogoutRead(f)
    \/ \E o \in RemoteOutcomes : LogoutFetchSettle(o)
    \/ \E done \in SUBSET STORAGE_KEYS : LogoutClear(done)
    \/ CheckDispatch
    \/ \E f \in BOOLEAN : CheckComplete(f)
    \/ DispatchLoginStart
    \/ \E payload \in LoginSuccessPayloads : DispatchLoginSuccess(payload)
    \/ \E msg \in {<<"Login failed">>} : DispatchLoginFailure(msg)
    \/ DispatchLogout
    \/ DispatchClearError
    \/ Restart

Spec == Init /\ [][Next]_vars

NextClient ==
    \/ \E k \in RefreshCalls : DirectRefresh(k)
    \/ \E k \in RefreshCalls, f \in BOOLEAN : RefreshRead(k, f)
    \/ \E k \in RefreshCalls, tok \in NewAccessTokens, rot \in RotatedRefreshTokens,
          w \in {0, 1, 2} : RefreshResponseOk(k, tok, rot, w)
    \/ \E k \in RefreshCalls : RefreshResponseError(k)
    \/ \E k \in RefreshCalls : RefreshNetworkFailure(k)
    \/ \E r \in Requests, f \in BOOLEAN : FetchWithAuth(r, f)
    \/ \E r \in Requests, f \in BOOLEAN : RefreshAwaited(r, f)
    \/ \E r \in Requests, o \in {"ok", "threw"} : ResponseOther(r, o)
    \/ \E r \in Requests, k \in RefreshCalls : ResponseUnauthorized(r, k)
    \/ \E r \in Requests : RefreshResolved(r)
    \/ \E r \in Requests : RefreshRejected(r)
    \/ \E r \in Requests, f \in BOOLEAN, done \in SUBSET STORAGE_KEYS :
          ClientLogout(r, f, done)
    \/ \E r \in Requests, o \in {"ok", "threw"} : RetrySettled(r, o)

\* The API client and the refresh calls, over whatever the device holds
SpecClient == Init /\ [][NextClient]_vars

NextMcp ==
    \/ \E l \in Listeners, kind \in ListenerKinds : addConnectionListener(l, kind)
    \/ \E l \in Listeners : removeListener(l)
    \/ \E url \in McpUrls, tok \in McpTokens, ioThrows \in BOOLEAN :
          ConnectWithoutSocket(url, tok, ioThrows)
    \/ \E i \in Sockets, url \in McpUrls, tok \in McpTokens : ConnectStart(i, url, tok)
    \/ \E i \in Sockets : SocketConnect(i)
    \/ \E i \in Sockets : HandshakeTimeout(i)
    \/ \E i \in Sockets : SocketDisconnect(i)
    \/ \E i \in Sockets : ReconnectFailed(i)
    \/ \E i \in Sockets : AuthError(i)
    \/ \E i \in Sockets, f \in BOOLEAN : AuthErrorResume(i, f)
    \/ disconnect

\* what the device holds when the MCP service is in use: nothing, or a full record
McpStores == {EmptyStore,
              LoginRecord([username |-> <<"demo">>, serverUrl |-> <<"https://", "h">>],
                          [accessToken |-> <<"a">>, refreshToken |-> <<"b">>,
                           user |-> <<"1", "Demo", "demo">>])}

InitMcp == Init /\ store \in McpStores

\* The MCP service
SpecMcp == InitMcp /\ [][NextMcp]_vars

NextQuery ==
    \/ \E url \in McpUrls, tok \in McpTokens, ioThrows \in BOOLEAN :
          ConnectWithoutSocket(url, tok, ioThrows)
    \/ \E i \in Sockets, url \in McpUrls, tok \in McpTokens : ConnectStart(i, url, tok)
    \/ \E i \in Sockets : SocketConnect(i)
    \/ \E i \in Sockets : HandshakeTimeout(i)
    \/ \E i \in Sockets : SocketDisconnect(i)
    \/ \E i \in Sockets : ReconnectFailed(i)
    \/ disconnect
    \/ \E text \in QueryTexts : processQuery(text)
    \/ \E o \in AckOutcomes : SocketAck(o)
    \/ SocketQueryTimeout
    \/ \E o \in AckOutcomes : LateAck(o)
    \/ \E f \in BOOLEAN : RestRead(f)
    \/ \E o \in RestOutcomes : RestSettle(o)

\* The MCP service answering queries, with no listener registered
SpecQuery == InitMcp /\ [][NextQuery]_vars

----------------------------------------------------------------------------
(* Properties of the session manager *)

\* C1: in every reachable Session state, isLoggedIn implies that the access token
\* held in the Session is not null.
LoggedInHasToken == session.isLoggedIn => session.token # NULL

LoggedInAfterLogin == last.op = "login" /\ last.code = "ok" /\ session.isLoggedIn

\* C2 (as claimed): token refresh is single-flight: callers that overlap share one
\* request to /auth/refresh, so no two refresh requests are ever in flight together.
RefreshIsSingleFlight ==
    Cardinality({k \in RefreshCalls : refresh[k].stage = "fetch"}) <= 1

\* C18 (as claimed): a refresh called with no refresh token persisted fails with an
\* error tagged NO_REFRESH_TOKEN and sends no request to the refresh endpoint.
NoRefreshTokenIsTagged ==
    \A k \in RefreshCalls :
        refresh[k].cause = "no_refresh_token" =>
            (refresh[k].code = "NO_REFRESH_TOKEN" /\ ~refresh[k].sent)

\* the refresh call k failed on a non-2xx answer or on a network failure
RefreshFailedRemotely(k) ==
    refresh[k].stage = "failed" /\ refresh[k].cause \in {"http_error", "network_failure"}

\* C19 (as claimed): a token refresh that fails on a non-2xx answer or a network
\* failure clears nothing: the step in which it fails, and the API client's handling of
\* that failure, leave the credential store and the Session as they were; a refresh
\* that succeeds writes only the access token and the refresh token.
FailedRefreshKeepsSession ==
    [][/\ (\E k \in RefreshCalls : /\ refresh[k].stage = "fetch"
                                    /\ refresh'[k].stage = "failed"
                                    /\ refresh'[k].cause \in {"http_error", "network_failure"})
            => (store' = store /\ session' = session)
       /\ (\E r \in Requests : /\ request[r].pc = "logout"
                                /\ RefreshFailedRemotely(request[r].waitOn)
                                /\ request'[r].pc = "done")
            => (store' = store /\ session' = session)
       /\ (\E k \in RefreshCalls : refresh[k].stage = "fetch" /\ refresh'[k].stage = "ok")
            => /\ \A key \in STORAGE_KEYS \ {"access_token", "refresh_token"} :
                     store'[key] = store[key]
               /\ session' = session]_vars

\* C3 (as claimed): a login whose username, password or serverUrl is empty, or whose
\* serverUrl lacks the http(s):// prefix, fails with INVALID_INPUT, sends no request
\* to /auth/login and writes nothing to the credential store.
InvalidLoginFailsFast ==
    (/\ last.op = "login"
     /\ \/ last.username = <<>>
        \/ last.password = <<>>
        \/ last.serverUrl = <<>>
        \/ ~HasHttpPrefix(last.serverUrl))
    => (last.code = "INVALID_INPUT" /\ ~last.sent /\ ~last.wrote)

LogoutCompleted == last.op = "logout" /\ last.result # "pending"

SessionLoggedOut ==
    /\ session.isLoggedIn = FALSE
    /\ session.token = NULL
    /\ session.refreshToken = NULL
    /\ session.username = NULL
    /\ session.serverUrl = NULL
    /\ session.user = NULL
    /\ session.loading = FALSE

LoginThenCheckRoundTrip ==
    (/\ last.op = "check" /\ last.done /\ ~last.readFailed
     /\ persisted # NoPersisted)
    => /\ last.status.isLoggedIn
       /\ last.status.username = persisted.username
       /\ last.status.serverUrl = persisted.serverUrl
       /\ last.status.token = persisted.accessToken

CheckAfterLogin ==
    /\ last.op = "check" /\ last.done /\ ~last.readFailed
    /\ persisted # NoPersisted
    /\ persisted.serverUrl = <<"ftp://", "h">>

\* the stored user is present and is not valid JSON
StoredUserCorrupt == Truthy(store["user"]) /\ ~JSONvalid(store["user"])

\* C7: checkAuthStatus never throws; it reports isLoggedIn: true exactly when the access
\* token, the username and the server URL are all present and no failure occurred (no
\* read rejected, the stored user parsed).
CheckNeverThrows ==
    (last.op = "check" /\ last.done) =>
        /\ ~last.threw
        /\ last.status.isLoggedIn <=>
              (/\ Truthy(store["access_token"])
               /\ Truthy(store["username"])
               /\ Truthy(store["server_url"])
               /\ ~last.readFailed
               /\ ~StoredUserCorrupt)

CheckWithCorruptUser ==
    /\ last.op = "check" /\ last.done /\ ~last.readFailed /\ StoredUserCorrupt
    /\ Truthy(store["access_token"]) /\ Truthy(store["username"])
    /\ Truthy(store["server_url"])

\* C17: when the login endpoint answers non-2xx, login is rejected as AUTH_FAILED and
\* the Session error is exactly the error field of the body, else its message field,
\* else the generic text with the status; loading is false and the credential store
\* is as it was.
LoginErrorCarriesServerMessage ==
    (last.op = "login" /\ last.code = "AUTH_FAILED") =>
        /\ session.error =
              (IF Truthy(last.errorData.error) THEN last.errorData.error
               ELSE IF Truthy(last.errorData.message) THEN last.errorData.message
               ELSE <<"Authentication failed with status ", last.status>>)
        /\ ~session.loading
        /\ ~last.wrote
        /\ store = last.storeBefore

LoginRefusedWithInvalidCredentials ==
    /\ last.op = "login" /\ last.code = "AUTH_FAILED"
    /\ last.status = "401"
    /\ last.errorData.error = <<"Invalid credentials">>
    /\ session.error = <<"Invalid credentials">>

\* this step fulfils a login that LoginScreen.handleLogin dispatched
ScreenLoginFulfilled ==
    /\ last.op = "login" /\ last.screen /\ last.code = "pending"
    /\ last'.op = "login" /\ last'.code = "ok"

LoggedOut(state) == ~state.isLoggedIn /\ state.token = NULL

\* the Session is LoggingIn: LoggedOut with the request under way
LoggingIn(state) == LoggedOut(state) /\ state.loading /\ state.error = NULL

\* the login thunk, started from a LoggedOut Session, settles in this step
LoginSettles ==
    /\ LoggedOut(session)
    /\ last'.op = "login"
    /\ last'.code # "pending"
    /\ authPc' = "idle"
    /\ authPc = "login_fetch" \/ last'.code = "INVALID_INPUT"

\* C23: the login state machine. A login request made from LoggedOut that goes to the
\* server leaves the Session LoggingIn (loading, no error); when the login settles the
\* Session is either LoggedIn with a token, loading false and error null (success), or
\* LoggedOut with loading false and error set to the message of the failure; a Session
\* that is not logged in never holds a token.
LoginStateMachine ==
    [][/\ (LoggedOut(session) /\ authPc = "idle" /\ authPc' = "login_fetch")
            => LoggingIn(session')
       /\ LoginSettles
            => /\ ~session'.loading
               /\ IF last'.code = "ok"
                  THEN /\ session'.isLoggedIn
                       /\ session'.token # NULL
                       /\ session'.error = NULL
                  ELSE /\ LoggedOut(session')
                       /\ session'.error # NULL
                       /\ last'.code = "INVALID_INPUT" =>
                             session'.error = LoginValidation(last'.username,
                                                 last'.password, last'.serverUrl)
                       /\ last'.code = "NETWORK_ERROR" =>
                             session'.error = NetworkErrorMessage
                       /\ last'.code = "AUTH_FAILED" =>
                             session'.error \in {last'.errorData.error,
                                                 last'.errorData.message,
                                                 <<"Authentication failed with status ",
                                                   last'.status>>}
       /\ ~session'.isLoggedIn => session'.token = NULL]_vars

\* a login made from LoggedOut failed on the network and the Session is LoggedOut
\* again, with the error set
LoginFailedBackToLoggedOut ==
    /\ last.op = "login"
    /\ last.code = "NETWORK_ERROR"
    /\ LoggedOut(session)
    /\ ~session.loading
    /\ session.error = NetworkErrorMessage

\* what a checkAuthStatus run against the store st would report
WouldReportLoggedIn(st) ==
    LET r == checkAuthStatus(st, FALSE) IN ~r.threw /\ r.status.isLoggedIn

\* the login request is answered in this step and the login settles
LoginAnswered == authPc = "login_fetch" /\ authPc' = "idle" /\ last'.op = "login"

\* C25 (as claimed): the credential record is written as a set and removed as a set.
\* When a login settles the store holds all five keys of that login or is as it was
\* before; a login reported as failed has persisted nothing, so it cannot make a
\* later checkAuthStatus report isLoggedIn: true; the removal at logout removes all
\* five keys or none.
CredentialRecordIsAtomic ==
    [][/\ LoginAnswered
            => /\ \/ store' = store
                  \/ \E data \in LoginBodies : store' = LoginRecord(last', data)
               /\ last'.code # "ok" => store' = store
               /\ (last'.code # "ok" /\ ~WouldReportLoggedIn(store))
                     => ~WouldReportLoggedIn(store')
       /\ (authPc = "logout_clear" /\ authPc' = "idle" /\ last'.op = "logout")
            => (store' = store \/ store' = EmptyStore)]_vars

\* C29 (as claimed): after a successful login the Session holds the username and the
\* serverUrl that were submitted, with the token; every LoggedIn Session has token,
\* username and serverUrl non-null, which is what the Main screen needs to connect.
LoggedInSessionCanConnect ==
    /\ (last.op = "login" /\ last.code = "ok")
          => /\ session.token # NULL
             /\ session.username = last.username
             /\ session.serverUrl = last.serverUrl
    /\ session.isLoggedIn
          => (session.token # NULL /\ session.username # NULL /\ session.serverUrl # NULL)

\* C30 (as claimed): after checkAuthStatus completes, the Session's isLoggedIn equals
\* the status it reported: with the credentials missing or unreadable the Session is
\* logged out with no token, whatever it was before; loading is false in every case.
CheckSetsSessionToStatus ==
    (last.op = "check" /\ last.done)
        => /\ session.isLoggedIn = last.status.isLoggedIn
           /\ ~last.status.isLoggedIn => session.token = NULL
           /\ ~session.loading

----------------------------------------------------------------------------
(* Properties of the MCP service *)

Registered(l) == \E i \in 1..Len(connectionListeners) : connectionListeners[i] = l

\* C8 (as claimed): a registered listener is called at registration with the current
\* state and again on every change of the connected state, so the value a registered
\* listener last received always equals isActive().
ListenersHoldCurrentState ==
    \A l \in Listeners : Registered(l) => listener[l].received = BoolStr(isConnected)

\* C9 (as claimed): a listener that throws does not make connect, disconnect or
\* addConnectionListener throw.
ListenerErrorsAreContained ==
    last.op \in {"connect", "disconnect", "addConnectionListener"} => ~last.threw

\* C10 (as claimed): connect resolves to a boolean and never throws; when the
\* handshake failed it resolves to true with the service marked connected on the
\* stateless path, the socket not ready, and every registered listener notified of it.
ConnectFallsBackToRest ==
    /\ last.op = "connect" => ~last.threw
    /\ (last.op = "connect" /\ last.path \in {"handshake_failed", "io_threw", "no_io"}) =>
          /\ last.result = TRUE
          /\ isConnected
          /\ ~socketReady
          /\ \A l \in Listeners : Registered(l) => listener[l].received = "true"

\* C15 (as claimed): when the backend sends auth_error, the channel makes exactly one
\* token refresh through the session manager and reconnects with the newly obtained
\* token; it does not loop: a socket that auth_error handling has reconnected is not
\* reconnected by it again.
AuthErrorRefreshesOnce ==
    (last.op = "auth_error" /\ last.reconnect) =>
        /\ Cardinality({k \in RefreshCalls : refresh[k].stage # "unused"}) = 1
        /\ last.auth # last.was
        /\ ~last.again

\* C16 (as claimed): after disconnect, from whatever state it was called, isConnected
\* and socketReady are false, no socket is held and every socket created is closed.
DisconnectClosesEverything ==
    last.op = "disconnect" =>
        /\ ~isConnected
        /\ ~socketReady
        /\ socket = 0
        /\ \A i \in Sockets : sockets[i].state \in {"none", "closed"}

\* C21 (as claimed): when the reconnection attempts of a socket are exhausted after its
\* connect call returned, whether the handshake had succeeded or the call had timed out
\* into the REST fallback, the channel is marked disconnected (isConnected and
\* socketReady false) and every registered listener has been notified with false.
ExhaustionMarksDisconnected ==
    (last.op = "reconnect_failed" /\ last.call \in {"done", "timedout"}) =>
        /\ ~isConnected
        /\ ~socketReady
        /\ \A l \in Listeners : Registered(l) => listener[l].received = "false"

\* the socket instances whose connection to the backend is up
LiveSockets == {i \in Sockets : sockets[i].state = "connected"}

\* C24 (as claimed): a live connection is never reused across a token change: the
\* auth_error handler never reconnects an existing socket instance, every instance
\* carries the token it was created with, and at most one instance is live at a time.
FreshSocketPerToken ==
    /\ \A i \in Sockets : ~sockets[i].reauth
    /\ Cardinality(LiveSockets) <= 1

\* a connect call that waited on a handshake has just completed, disconnect was called
\* during its wait and no connect was called since (connect sets serverUrl, only
\* disconnect clears it)
ConnectCompletedAfterDisconnect ==
    /\ last.op = "connect"
    /\ last.path \in {"socket", "handshake_failed"}
    /\ serverUrl = NULL

\* C27 (as claimed): disconnect wins over a connect in flight: once both have
\* completed, isConnected and socketReady are false, no socket is open and the last
\* value every registered listener received is false.
DisconnectWinsOverConnect ==
    ConnectCompletedAfterDisconnect =>
        /\ ~isConnected
        /\ ~socketReady
        /\ \A i \in Sockets : sockets[i].state \in {"none", "closed"}
        /\ \A l \in Listeners : Registered(l) => listener[l].received = "false"

\* connect or disconnect completes in this step: both end by notifying the listeners
Notifies ==
    \/ last'.op = "disconnect"
    \/ last'.op = "connect" /\ last'.path # "pending"

\* C28 (as claimed): on a notification every listener registered at that moment is
\* invoked with the current state, also when a listener unsubscribes from inside its
\* callback; a listener that is not registered is not invoked.
NotifiesEveryRegisteredListener ==
    [][Notifies =>
          \A l \in Listeners :
             IF Registered(l)
             THEN listener'[l].received = BoolStr(isConnected')
             ELSE listener'[l] = listener[l]]_vars

----------------------------------------------------------------------------
(* Properties of processQuery *)

QueryDone == query.pc = "done"

NonBlank(text) == Trim(text) # <<>>

\* C11: a connect whose handshake does not complete in time leaves the channel marked
\* connected, and a non-blank processQuery made while that handshake is still
\* incomplete and the channel marked connected emits nothing on the socket, goes over
\* REST, and returns the server's result whenever the query endpoint answers 2xx.
FallbackQuerySucceeds ==
    /\ (last.op = "connect" /\ last.path = "handshake_failed") => isConnected
    /\ (QueryDone /\ NonBlank(query.text) /\ query.start.isConnected
            /\ query.start.timedOut) =>
          /\ query.emits = 0
          /\ query.response.via = "rest"
          /\ query.rest = "ok" => query.response = ServerResult("rest")
          /\ query.response.type = "error" <=> query.rest # "ok"

QueryAfterHandshakeTimeout ==
    /\ QueryDone /\ NonBlank(query.text)
    /\ query.start.isConnected /\ query.start.timedOut
    /\ query.rest = "ok"

\* C12: processQuery with empty or whitespace-only text returns the EMPTY_QUERY error
\* response in every connection state, emitting nothing on the socket and sending no
\* HTTP request.
EmptyQueryRejected ==
    (query.pc # "idle" /\ ~NonBlank(query.text)) =>
        /\ QueryDone
        /\ query.response = ErrorResponse("EMPTY_QUERY", "local")
        /\ query.emits = 0
        /\ query.http = 0

BlankQueryWhileSocketReady ==
    /\ QueryDone /\ query.text = <<" ">>
    /\ query.start.isConnected /\ query.start.ready

QueryStep == last'.op \in {"processQuery", "lateAck"}

\* the call in progress gives up its socket attempt in this step
FallsBack == query.pc = "ws_wait" /\ query'.wsFailed

\* processQuery is called with a non-blank text while the channel is connected and
\* its socket is ready
CalledOnReadySocket ==
    /\ last'.op = "processQuery" /\ ~last'.resumed
    /\ NonBlank(query'.text)
    /\ isConnected /\ socket # 0 /\ socketReady

\* C20: fallback from the socket is per call. A query whose socket attempt timed out
\* or was rejected goes on over REST and its answer is the one the REST path produced;
\* no step of a query changes isConnected, socketReady or the socket held; and the next
\* query, like every query called while the socket is ready, is emitted on the socket
\* first, also when the query before it had fallen back.
PerCallFallback ==
    [][/\ QueryStep => UNCHANGED <<isConnected, socketReady, socket, sockets>>
       /\ FallsBack => (query'.pc = "rest_read" /\ query'.text = query.text)
       /\ (query.wsFailed /\ query.pc # "done" /\ query'.pc = "done")
            => /\ query'.response.via = "rest"
               /\ query'.rest = "ok" => query'.response = ServerResult("rest")
       /\ CalledOnReadySocket
            => /\ query'.pc = "ws_wait"
               /\ query'.emits = 1
               /\ query'.on = socket
               /\ query'.http = 0]_vars

\* a query is waiting on the socket and the query before it had fallen back to REST
QueryAgainOverSocket ==
    /\ query.afterFallback
    /\ query.pc = "ws_wait"
    /\ query.emits = 1
    /\ query.on = socket


\* C26: an acknowledgment that arrives after the response timer fired is ignored: it
\* changes neither the position of the call, nor its response, nor what it sent, nor
\* the channel state; and the response of a call whose socket attempt was given up is
\* the one the REST path produced.
LateAckIgnored ==
    [][/\ (last'.op = "lateAck" /\ query.late)
            => /\ query'.pc = query.pc
               /\ query'.response = query.response
               /\ query'.emits = query.emits /\ query'.http = query.http
               /\ UNCHANGED <<isConnected, socketReady, socket, sockets>>
       /\ (query'.pc = "done" /\ query'.wsFailed) => query'.response.via = "rest"]_vars

\* the acknowledgment carrying a result arrived after the call had returned the answer
\* of the REST fallback
LateResultAfterRestAnswer ==
    /\ last.op = "lateAck"
    /\ last.outcome = "result"
    /\ QueryDone
    /\ query.wsFailed
    /\ query.response.via = "rest"

====
